---- MODULE Spec2Model ----
(***************************************************************************)
(* A model of the issue-triage service: the Analysis Client                *)
(* (services/ai_analyzer.py), the Issue Source Adapter                     *)
(* (services/github_client.py), the Notification Sender                    *)
(* (services/feishu_client.py) and the request handlers (main.py).         *)
(*                                                                         *)
(* Scores are kept in tenths (0.5 is 5, 0.8 is 8), so that they stay       *)
(* integers.  Time is kept in seconds.                                     *)
(***************************************************************************)
EXTENDS Integers, Sequences, FiniteSets, TLC

VARIABLES
    \* ---- Analysis Client: one call of AIAnalyzer.analyze_issue
    a_pc,            \* "idle" before the call, "done" after it
    issue,           \* the issue record handed to analyze_issue
    completion,      \* what the chat-completion call did
    model_called,    \* TRUE iff the call reached client.chat.completions.create
    analysis,        \* what analyze_issue did: a returned record or a raise
    \* ---- Issue Source Adapter: one call of GitHubClient.get_issues
    g_pc,            \* "idle", "loop" (inside while True), "done" (returned)
    per_page,        \* the per_page argument
    page,            \* params['page']
    issues,          \* the list being accumulated (ids of GitHubIssue objects)
    requested,       \* history: the page numbers requested, in order
    served,          \* history: what the tracker answered to each request
    returned,        \* the list the call returned
    \* ---- Notification Sender: FeishuClient and one call of send_api_message
    clock,           \* time.time(), in seconds
    credentials,     \* TRUE iff app_id and app_secret are both configured
    access_token,    \* self.access_token
    token_expire_time, \* self.token_expire_time
    fetches,         \* history: the number of tokens the token endpoint issued
    s_pc,            \* "idle", "fetch", "post", "done"
    receive_id,      \* the receive_id argument
    receive_id_type, \* the receive_id_type argument as the caller gave it
    token,           \* the local variable token of send_api_message
    obtained_at,     \* history: the clock when _get_access_token returned
    posts,           \* history: the message POSTs this call has made
    sent,            \* the boolean the call returned
    \* ---- Notification Sender: one call of send_webhook_message
    w_pc,            \* "idle" before the call, "done" after it
    w_posts,         \* history: the webhook POSTs this call has made
    w_sent,          \* the boolean the call returned
    \* ---- Request handlers: one request of POST /api/find-beginner-issues
    d_pc,            \* "idle" before the request, "done" after it
    d_in,            \* the request and what the tracker, the model and the
                     \* messenger answer while it is served
    d_out,           \* the response, with the history of the calls made
    \* ---- Request handlers: one request of POST /api/search-bigdata-projects
    c_pc,            \* "idle" before the request, "done" after it
    c_in,            \* the request, the catalog and what the tracker answers
    c_out,           \* the response, with the filtered list and the history
                     \* of the per-project loop
    \* ---- Request handlers: one request of POST /api/daily-monitor
    m_pc,            \* "idle", "loop" (between two projects), "done"
    m_config,        \* what load_projects_config did: "ok" or "raise"
    m_len,           \* len(bigdata_projects)
    m_index,         \* the number of projects the loop has taken up
    all_recommendations, \* the list being collected
    total_issues,    \* the running sum
    m_served,        \* history: the number of issues the tracker has listed
    m_calls,         \* history: the (project, issue) pairs handed to the model
    m_out,           \* the response, with the digests sent
    \* ---- Notification Sender: one call of build_daily_summary
    k_pc,            \* "idle" before the call, "done" after it
    k_in,            \* the recommendations argument
    k_card,          \* card['elements'] of the card returned
    \* ---- Request handlers: one request of POST /api/analyze-issue
    e_pc,            \* "idle" before the request, "done" after it
    e_in,            \* the request and what the tracker, the model and the
                     \* webhook answer while it is served
    e_out,           \* the response, with the history of the calls made
    \* ---- Issue Source Adapter: one call of get_readme or
    \* get_contributing_guide
    r_pc,            \* "idle" before the call, "done" after it
    r_in,            \* the method called and what the tracker answered
    r_out,           \* what the call did: a returned string or a raise
    \* ---- Notification Sender: two threads inside send_api_message, over
    \* the client's clock, access_token, token_expire_time and fetches
    t_pc,            \* where each thread stands
    t_resp,          \* the token response each thread holds
    t_token,         \* the local variable token of each thread
    t_post,          \* history: the token each thread's POST carried, and when
    token_from,      \* history: the fetch whose response access_token is of
    expiry_from      \* history: the fetch whose response token_expire_time is of

a_vars == <<a_pc, issue, completion, model_called, analysis>>

g_vars == <<g_pc, per_page, page, issues, requested, served, returned>>

f_vars == <<clock, credentials, access_token, token_expire_time, fetches>>

s_vars == <<s_pc, receive_id, receive_id_type, token, obtained_at, posts, sent>>

w_vars == <<w_pc, w_posts, w_sent>>

d_vars == <<d_pc, d_in, d_out>>

c_vars == <<c_pc, c_in, c_out>>

m_vars == <<m_pc, m_config, m_len, m_index, all_recommendations, total_issues,
           m_served, m_calls, m_out>>

k_vars == <<k_pc, k_in, k_card>>

e_vars == <<e_pc, e_in, e_out>>

h_vars == <<d_vars, c_vars, m_vars, k_vars, e_vars>>

r_vars == <<r_pc, r_in, r_out>>

t_vars == <<t_pc, t_resp, t_token, t_post, token_from, expiry_from>>

o_vars == <<r_vars, t_vars>>

vars == <<a_vars, g_vars, f_vars, s_vars, w_vars, h_vars, o_vars>>

(***************************************************************************)
(* JSON as the model returns it.                                           *)
(***************************************************************************)
Fields ==
    {"complexity_score", "difficulty_level", "required_skills", "estimated_time",
     "solution_approach", "technical_breakdown", "learning_opportunities",
     "confidence_score"}

\* JSON null, for a field whose value is not of the expected type.
JsonNull == "null"

Tiers == {"beginner", "intermediate", "advanced"}

EmptyMap == [k \in {} |-> ""]

\* A complete object, every field carrying a value the model may write.
FullObjects ==
    [complexity_score       : {2, 15},
     difficulty_level       : {"beginner", "expert", JsonNull},
     required_skills        : {<<"Java">>},
     estimated_time         : {"2h"},
     solution_approach      : {"patch the parser"},
     technical_breakdown    : {[files |-> "Parser.java"]},
     learning_opportunities : {<<"parsing">>},
     confidence_score       : {9, 12}]

Restrict(f, D) == [k \in D |-> f[k]]

\* Every JSON object over a subset of the expected fields.
Objects == {Restrict(o, D) : o \in FullObjects, D \in SUBSET Fields}

\* What json.loads makes of a string: an object, another JSON value, or a
\* ValueError ("invalid").  "nomatch" stands for a regex that did not match.
Obj(o)   == [t |-> "object", o |-> o]
Other(t) == [t |-> t, o |-> EmptyMap]
NoMatch  == Other("nomatch")
Invalid  == Other("invalid")

\* A response text, by what the two regexes and json.loads find in it:
\* fence is the inside of the first ```json ... ``` block, brace the span from
\* the first { to the last }, whole the text itself.
Text(f, b, w) == [content |-> "str", fence |-> f, brace |-> b, whole |-> w]
NoneText == [content |-> "none", fence |-> NoMatch, brace |-> NoMatch, whole |-> Invalid]

Texts ==
    {NoneText}
    \cup {Text(Obj(o), NoMatch, Invalid) : o \in Objects}                 \* fenced object
    \cup {Text(p, NoMatch, Invalid) : p \in {Other("list"), Other("number"), Invalid}}
    \cup {Text(NoMatch, Obj(o), Invalid) : o \in Objects}                 \* prose around { ... }
    \cup {Text(NoMatch, Invalid, Invalid)}                                \* braces, not JSON
    \cup {Text(Invalid, Obj(o), Invalid) : o \in {Restrict(f, {"complexity_score"}) : f \in FullObjects}}
    \cup {Text(NoMatch, NoMatch, w) : w \in {Other("list"), Other("number"), Invalid}}

\* The chat-completion call: it raises, or it returns a message content.
Completions ==
    {[transport |-> "error", text |-> NoneText]}
    \cup {[transport |-> "ok", text |-> x] : x \in Texts}

(***************************************************************************)
(* Issue records, by what the prompt builder and the record constructor    *)
(* read of them.                                                           *)
(***************************************************************************)
Issues ==
    [hasId  : BOOLEAN,
     body   : {"absent", "null", "text"},
     labels : {"absent", "empty", "strings", "objects"}]

(***************************************************************************)
(* AIAnalyzer (services/ai_analyzer.py)                                    *)
(***************************************************************************)
\* Default arguments of the analysis_data.get calls and the fallback values
\* of the parse-failure dict, in tenths.
GET_DEFAULT_COMPLEXITY == 5
GET_DEFAULT_CONFIDENCE == 8
FALLBACK_COMPLEXITY == 5
FALLBACK_CONFIDENCE == 5

\* Faulty variant of DictGet: the value the dict carries is ignored.
DictGetIgnoresValue(d, k, default) == default

\* dict.get(k, default)
DictGet(d, k, default) == IF k \in DOMAIN d THEN d[k] ELSE default

\* The dict _parse_analysis_response returns from its bare except.
ParseFailureDict ==
    [complexity_score       |-> FALLBACK_COMPLEXITY,
     difficulty_level       |-> "intermediate",
     required_skills        |-> <<>>,
     estimated_time         |-> "unknown",
     solution_approach      |-> "",
     technical_breakdown    |-> EmptyMap,
     learning_opportunities |-> <<>>,
     confidence_score       |-> FALLBACK_CONFIDENCE]

\* The string handed to json.loads: the fenced block if the first regex
\* matches, else the brace span if the second matches, else the whole text.
JsonStr(text) ==
    IF text.fence.t # "nomatch" THEN text.fence
    ELSE IF text.brace.t # "nomatch" THEN text.brace
    ELSE text.whole

\* Faulty variant of _parse_analysis_response, without its except clause: a
\* json.loads failure reaches the caller.
parse_analysis_response_unguarded(text) ==
    IF text.content = "none" THEN Invalid ELSE JsonStr(text)

\* _parse_analysis_response: re.search on None raises TypeError, json.loads on
\* a non-JSON string raises ValueError; both end in the bare except.
parse_analysis_response(text) ==
    IF text.content = "none" \/ JsonStr(text).t = "invalid"
    THEN Obj(ParseFailureDict)
    ELSE JsonStr(text)

\* _build_issue_analysis_prompt: "ok", or the exception it raises.
\* None[:1000] and ', '.join(list of dicts) are TypeErrors.
build_issue_analysis_prompt(i) ==
    IF i.body = "null" \/ i.labels = "objects" THEN "TypeError" ELSE "ok"

NoRecord ==
    [issue_id               |-> 0,
     complexity_score       |-> 0,
     difficulty_level       |-> "",
     required_skills        |-> <<>>,
     estimated_time         |-> "",
     solution_approach      |-> "",
     technical_breakdown    |-> EmptyMap,
     learning_opportunities |-> <<>>,
     confidence_score       |-> 0]

NotCalled   == [kind |-> "none", exc |-> "", rec |-> NoRecord]
Returned(r) == [kind |-> "record", exc |-> "", rec |-> r]
Raised(e)   == [kind |-> "raised", exc |-> e, rec |-> NoRecord]

\* _get_default_analysis: issue['id'] is a KeyError on a record without an id.
get_default_analysis(i) ==
    IF ~i.hasId THEN Raised("KeyError")
    ELSE Returned(
        [issue_id               |-> 1,
         complexity_score       |-> 5,
         difficulty_level       |-> "intermediate",
         required_skills        |-> <<"Git", "project language">>,
         estimated_time         |-> "1-3 days",
         solution_approach      |-> "understand the architecture first",
         technical_breakdown    |-> EmptyMap,
         learning_opportunities |-> <<"code structure", "distributed systems">>,
         confidence_score       |-> 5])

\* analyze_issue.  The prompt is built before the try; inside the try every
\* exception (the model call's, issue['id'], .get on a non-dict) ends in
\* _get_default_analysis.
analyze_issue(i, c) ==
    IF build_issue_analysis_prompt(i) # "ok" THEN Raised(build_issue_analysis_prompt(i))
    ELSE IF c.transport = "error" THEN get_default_analysis(i)
    ELSE LET analysis_data == parse_analysis_response(c.text) IN
         IF ~i.hasId \/ analysis_data.t # "object" THEN get_default_analysis(i)
         ELSE LET d == analysis_data.o IN Returned(
            [issue_id               |-> 1,
             complexity_score       |-> DictGet(d, "complexity_score", GET_DEFAULT_COMPLEXITY),
             difficulty_level       |-> DictGet(d, "difficulty_level", "intermediate"),
             required_skills        |-> DictGet(d, "required_skills", <<>>),
             estimated_time         |-> DictGet(d, "estimated_time", "unknown"),
             solution_approach      |-> DictGet(d, "solution_approach", ""),
             technical_breakdown    |-> DictGet(d, "technical_breakdown", EmptyMap),
             learning_opportunities |-> DictGet(d, "learning_opportunities", <<>>),
             confidence_score       |-> DictGet(d, "confidence_score", GET_DEFAULT_CONFIDENCE)])

NoIssue == [hasId |-> FALSE, body |-> "absent", labels |-> "absent"]
NoCompletion == [transport |-> "none", text |-> NoneText]

InitAnalyze ==
    /\ a_pc = "idle"
    /\ issue = NoIssue
    /\ completion = NoCompletion
    /\ model_called = FALSE
    /\ analysis = NotCalled

\* One call of analyze_issue, from entry to return or raise.
AnalyzeIssue ==
    /\ a_pc = "idle"
    /\ \E i \in Issues :
        /\ issue' = i
        /\ model_called' = (build_issue_analysis_prompt(i) = "ok")
        /\ \E c \in (IF build_issue_analysis_prompt(i) = "ok" THEN Completions ELSE {NoCompletion}) :
            /\ completion' = c
            /\ analysis' = analyze_issue(i, c)
    /\ a_pc' = "done"

\* The caller takes the result; the analyzer keeps no state between calls.
AnalyzeDone ==
    /\ a_pc = "done"
    /\ a_pc' = "idle"
    /\ issue' = NoIssue
    /\ completion' = NoCompletion
    /\ model_called' = FALSE
    /\ analysis' = NotCalled

(***************************************************************************)
(* GitHubClient.get_issues (services/github_client.py)                     *)
(***************************************************************************)
\* The largest per_page a call is made with, and the number of pages after
\* which the tracker has run out of items.
MaxPerPage == 2
MaxPages == 3

\* An item of a listing page: an issue that decodes, a pull request (it has
\* the pull_request key), or an issue GitHubIssue.from_api_response raises
\* on (a key it reads is missing).
ItemKinds == {"issue", "pr", "bad"}

SeqsUpTo(S, n) == UNION {[1..m -> S] : m \in 0..n}

\* What the tracker may answer to the request of page p: the request fails
\* (_make_request raises), or it returns at most per_page items; its last
\* page is a short one.
Responses(pp, p) ==
    {[ok |-> FALSE, items |-> <<>>]}
    \cup {[ok |-> TRUE, items |-> d] :
            d \in SeqsUpTo(ItemKinds, IF p < MaxPages THEN pp ELSE pp - 1)}

\* The tracker numbers its items in listing order.
ItemId(pp, p, i) == (p - 1) * pp + i

\* Faulty variant of NotPullRequest: pull requests are decoded and kept.
KeepsPullRequests(kind) == TRUE

\* 'pull_request' not in issue_data
NotPullRequest(kind) == kind # "pr"

\* The index of the first item the for loop raises on, Len + 1 if none.
FirstRaise(data) ==
    IF \E i \in 1..Len(data) : data[i] = "bad"
    THEN CHOOSE i \in 1..Len(data) :
            /\ data[i] = "bad"
            /\ \A j \in 1..(i - 1) : data[j] # "bad"
    ELSE Len(data) + 1

RECURSIVE AppendedFrom(_, _, _, _, _)
\* The ids the for loop appends from data[i..n-1], in order.
AppendedFrom(data, pp, p, i, n) ==
    IF i >= n THEN <<>>
    ELSE (IF NotPullRequest(data[i]) THEN <<ItemId(pp, p, i)>> ELSE <<>>)
         \o AppendedFrom(data, pp, p, i + 1, n)

\* Faulty variant of ForLoop: a page whose decoding raises contributes
\* nothing.
ForLoopDropsPageOnRaise(data, pp, p) ==
    [appended |-> IF FirstRaise(data) <= Len(data) THEN <<>>
                  ELSE AppendedFrom(data, pp, p, 1, Len(data) + 1),
     raised   |-> FirstRaise(data) <= Len(data)]

\* The for loop over one page: what it appends to issues before it ends or
\* raises, and whether it raised.
ForLoop(data, pp, p) ==
    [appended |-> AppendedFrom(data, pp, p, 1, FirstRaise(data)),
     raised   |-> FirstRaise(data) <= Len(data)]

\* Faulty variant of MorePages: only an empty page ends the listing.
MorePagesUnlessEmpty(data, pp) == Len(data) > 0

\* not (len(data) < per_page): another page is requested.
MorePages(data, pp) == ~(Len(data) < pp)

GIdle ==
    /\ g_pc = "idle"
    /\ per_page = 0
    /\ page = 0
    /\ issues = <<>>
    /\ requested = <<>>
    /\ served = <<>>
    /\ returned = <<>>

\* get_issues up to the while loop.
GetIssues ==
    /\ g_pc = "idle"
    /\ \E pp \in 1..MaxPerPage : per_page' = pp
    /\ page' = 1
    /\ issues' = <<>>
    /\ g_pc' = "loop"
    /\ UNCHANGED <<requested, served, returned>>

\* One pass of the while loop: request params['page'], then break (and
\* return issues) or go on to the next page.
FetchPage ==
    /\ g_pc = "loop"
    /\ \E r \in Responses(per_page, page) :
        LET loop == ForLoop(r.items, per_page, page)
            exception == ~r.ok \/ loop.raised
            go_on == ~exception /\ r.items # <<>> /\ MorePages(r.items, per_page)
            acc == IF r.ok THEN issues \o loop.appended ELSE issues
        IN  /\ requested' = Append(requested, page)
            /\ served' = Append(served, r)
            /\ issues' = acc
            /\ page' = IF go_on THEN page + 1 ELSE page
            /\ g_pc' = IF go_on THEN "loop" ELSE "done"
            /\ returned' = IF go_on THEN returned ELSE acc
    /\ UNCHANGED per_page

\* The caller takes the list; the client keeps nothing of the call.
GetIssuesDone ==
    /\ g_pc = "done"
    /\ g_pc' = "idle"
    /\ per_page' = 0
    /\ page' = 0
    /\ issues' = <<>>
    /\ requested' = <<>>
    /\ served' = <<>>
    /\ returned' = <<>>

(***************************************************************************)
(* GitHubClient.get_readme and get_contributing_guide                      *)
(* (services/github_client.py).  A text is the sequence of its code        *)
(* points, the empty string the empty sequence.                            *)
(***************************************************************************)
\* The longest content string of a file response.
MaxContent == 4

\* The characters of a content string: six of the base64 alphabet, the pad
\* and the line break the tracker puts into the encoding.
ContentChars == {"a", "G", "k", "/", "w", "6", "=", "\n"}

\* table_a2b_base64 on these characters: the value of an alphabet character,
\* 64 for any other.
Sextet(ch) ==
    CASE ch = "a" -> 26
      [] ch = "G" -> 6
      [] ch = "k" -> 36
      [] ch = "/" -> 63
      [] ch = "w" -> 48
      [] ch = "6" -> 58
      [] OTHER -> 64

Bytes(b) == [ok |-> TRUE, bytes |-> b]
BinasciiError == [ok |-> FALSE, bytes |-> <<>>]

\* binascii.a2b_base64 without strict mode, from character i on: characters
\* outside the alphabet are dropped, a pad that completes a quad ends the
\* input, a quad left open at the end is an error.
RECURSIVE a2b_base64(_, _, _, _, _, _)
a2b_base64(s, i, quad_pos, leftchar, pads, out) ==
    IF i > Len(s)
    THEN IF quad_pos # 0 THEN BinasciiError ELSE Bytes(out)
    ELSE IF s[i] = "="
    THEN IF quad_pos >= 2 /\ quad_pos + pads + 1 >= 4
         THEN Bytes(out)
         ELSE a2b_base64(s, i + 1, quad_pos, leftchar,
                         IF quad_pos >= 2 THEN pads + 1 ELSE pads, out)
    ELSE IF Sextet(s[i]) >= 64
    THEN a2b_base64(s, i + 1, quad_pos, leftchar, pads, out)
    ELSE LET this_ch == Sextet(s[i]) IN
         CASE quad_pos = 0 ->
                a2b_base64(s, i + 1, 1, this_ch, 0, out)
           [] quad_pos = 1 ->
                a2b_base64(s, i + 1, 2, this_ch % 16, 0,
                           Append(out, leftchar * 4 + this_ch \div 16))
           [] quad_pos = 2 ->
                a2b_base64(s, i + 1, 3, this_ch % 4, 0,
                           Append(out, leftchar * 16 + this_ch \div 4))
           [] OTHER ->
                a2b_base64(s, i + 1, 0, 0, 0,
                           Append(out, leftchar * 64 + this_ch))

\* base64.b64decode(s)
b64decode(s) == a2b_base64(s, 1, 0, 0, 0, <<>>)

Decoded(t) == [ok |-> TRUE, text |-> t]
UnicodeDecodeError == [ok |-> FALSE, text |-> <<>>]

\* b[i] is a byte between lo and hi.
ByteIn(b, i, lo, hi) == i <= Len(b) /\ lo <= b[i] /\ b[i] <= hi

\* A continuation byte, 0x80..0xBF.
Continuation(b, i) == ByteIn(b, i, 128, 191)

\* bytes.decode('utf-8') from byte i on: one, two, three and four byte
\* sequences, overlong forms, surrogates and code points past U+10FFFF
\* refused.
RECURSIVE utf_8_decode(_, _, _)
utf_8_decode(b, i, out) ==
    IF i > Len(b) THEN Decoded(out)
    ELSE IF b[i] < 128
    THEN utf_8_decode(b, i + 1, Append(out, b[i]))
    ELSE IF 194 <= b[i] /\ b[i] <= 223
    THEN IF ~Continuation(b, i + 1) THEN UnicodeDecodeError
         ELSE utf_8_decode(b, i + 2,
                Append(out, (b[i] - 192) * 64 + (b[i + 1] - 128)))
    ELSE IF 224 <= b[i] /\ b[i] <= 239
    THEN IF ~(/\ ByteIn(b, i + 1, IF b[i] = 224 THEN 160 ELSE 128,
                                  IF b[i] = 237 THEN 159 ELSE 191)
              /\ Continuation(b, i + 2))
         THEN UnicodeDecodeError
         ELSE utf_8_decode(b, i + 3,
                Append(out, (b[i] - 224) * 4096 + (b[i + 1] - 128) * 64
                            + (b[i + 2] - 128)))
    ELSE IF 240 <= b[i] /\ b[i] <= 244
    THEN IF ~(/\ ByteIn(b, i + 1, IF b[i] = 240 THEN 144 ELSE 128,
                                  IF b[i] = 244 THEN 143 ELSE 191)
              /\ Continuation(b, i + 2)
              /\ Continuation(b, i + 3))
         THEN UnicodeDecodeError
         ELSE utf_8_decode(b, i + 4,
                Append(out, (b[i] - 240) * 262144 + (b[i + 1] - 128) * 4096
                            + (b[i + 2] - 128) * 64 + (b[i + 3] - 128)))
    ELSE UnicodeDecodeError

\* What _make_request does for a file request: it raises (no such file, a
\* transport error, a body that is not JSON), or it returns a list, an
\* object without content, an object whose content is null, or an object
\* with a content string.
FileAnswer(kind, content) == [kind |-> kind, content |-> content]

FileAnswers ==
    {FileAnswer(k, <<>>) :
        k \in {"RequestException", "ValueError", "list", "no_content", "null_content"}}
    \cup {FileAnswer("object", s) : s \in SeqsUpTo(ContentChars, MaxContent)}

DocReturned(t) == [kind |-> "returned", exc |-> "", text |-> t]
DocRaised(e) == [kind |-> "raised", exc |-> e, text |-> <<>>]

\* The try block of both methods: the request, data['content'], b64decode
\* and decode('utf-8').
DocTry(answer) ==
    CASE answer.kind \in {"RequestException", "ValueError"} -> DocRaised(answer.kind)
      [] answer.kind \in {"list", "null_content"} -> DocRaised("TypeError")
      [] answer.kind = "no_content" -> DocRaised("KeyError")
      [] OTHER ->
            IF ~b64decode(answer.content).ok THEN DocRaised("binascii.Error")
            ELSE IF ~utf_8_decode(b64decode(answer.content).bytes, 1, <<>>).ok
            THEN DocRaised("UnicodeDecodeError")
            ELSE DocReturned(utf_8_decode(b64decode(answer.content).bytes, 1, <<>>).text)

\* Faulty variant of BareExcept: only the request's own exception is caught.
ExceptRequestException(did) ==
    IF did.kind = "raised" /\ did.exc = "RequestException" THEN DocReturned(<<>>) ELSE did

\* except: return ""
BareExcept(did) == IF did.kind = "raised" THEN DocReturned(<<>>) ELSE did

get_readme(answer) == BareExcept(DocTry(answer))

get_contributing_guide(answer) == BareExcept(DocTry(answer))

NoFileAnswer == [method |-> "none", answer |-> FileAnswer("none", <<>>)]

RIdle ==
    /\ r_pc = "idle"
    /\ r_in = NoFileAnswer
    /\ r_out = DocReturned(<<>>)

\* One call of get_readme.
GetReadme ==
    /\ r_pc = "idle"
    /\ \E answer \in FileAnswers :
        /\ r_in' = [method |-> "get_readme", answer |-> answer]
        /\ r_out' = get_readme(answer)
    /\ r_pc' = "done"

\* One call of get_contributing_guide.
GetContributingGuide ==
    /\ r_pc = "idle"
    /\ \E answer \in FileAnswers :
        /\ r_in' = [method |-> "get_contributing_guide", answer |-> answer]
        /\ r_out' = get_contributing_guide(answer)
    /\ r_pc' = "done"

\* The caller takes the string.
GetDocDone ==
    /\ r_pc = "done"
    /\ r_pc' = "idle"
    /\ r_in' = NoFileAnswer
    /\ r_out' = DocReturned(<<>>)

(***************************************************************************)
(* FeishuClient (services/feishu_client.py)                                *)
(***************************************************************************)
\* The safety margin subtracted from the declared lifetime, and the lifetime
\* assumed when the token response carries no expire field.
MARGIN == 300
DEFAULT_EXPIRE == 3600

\* The clock advances in steps of TickStep, MaxTicks times at most; the token
\* endpoint issues MaxTokens tokens at most.
TickStep == 300
MaxTicks == 4
MaxTokens == 2

\* The lifetimes (expire) the token endpoint may declare.
Lifetimes == {200, 300, 900}

\* A bearer token: the n-th the endpoint issued, with the expiry the endpoint
\* declared for it.  NoToken is None.
NoToken == [n |-> 0, expires |-> 0]

\* Recipient ids, as character sequences; NoneId is None (FEISHU_USER_ID
\* not set).
NoneId == [none |-> TRUE, chars |-> <<>>]
Id(chars) == [none |-> FALSE, chars |-> chars]

ReceiveIds ==
    {NoneId,
     Id(<<"o", "u", "_", "7">>), Id(<<"o", "c", "_", "7">>), Id(<<"o", "u", "_">>),
     Id(<<"o", "u">>), Id(<<"x", "o", "c", "_">>), Id(<<"u", "7">>), Id(<<>>)}

ReceiveIdTypes == {"open_id", "chat_id", "user_id"}

\* str.startswith
StartsWith(chars, prefix) ==
    /\ Len(chars) >= Len(prefix)
    /\ SubSeq(chars, 1, Len(prefix)) = prefix

\* Faulty variant of InferredType: a type other than the default open_id,
\* given by the caller, overrides the prefix.
InferredUnlessOverridden(rid, rtype) ==
    IF rtype # "open_id" THEN rtype
    ELSE IF StartsWith(rid.chars, <<"o", "c", "_">>) THEN "chat_id"
    ELSE rtype

\* The receive_id_type of the POST: the prefix of the id decides, and only an
\* id with neither prefix keeps the caller's type.
InferredType(rid, rtype) ==
    IF StartsWith(rid.chars, <<"o", "u", "_">>) THEN "open_id"
    ELSE IF StartsWith(rid.chars, <<"o", "c", "_">>) THEN "chat_id"
    ELSE rtype

\* What a POST may come to: requests.post raises (no status), the body is
\* not JSON (response.json raises, no code), or a status and a result code.
NoStatus == 0
NoCode == 0 - 1
PostResponses ==
    {[status |-> NoStatus, code |-> NoCode], [status |-> 200, code |-> NoCode]}
    \cup [status : {200, 500}, code : {0, 19001}]

\* Faulty variant of ApiSuccess: the result code is not looked at.
ApiSuccessByStatus(r) == r.status = 200

\* send_api_message returns True: status 200 and result.get("code") == 0.
ApiSuccess(r) == r.status = 200 /\ r.code = 0

\* Faulty variant of WebhookSuccess: the result code is not looked at.
WebhookSuccessByStatus(r) == r.status = 200

\* send_webhook_message returns True: status 200 and result.get("code") == 0.
WebhookSuccess(r) == r.status = 200 /\ r.code = 0

\* Faulty variant of CacheValid: the token counts as valid up to its expiry,
\* the margin forgotten.
CacheValidUntilExpiry ==
    access_token # NoToken /\ clock < token_expire_time + MARGIN

\* self.access_token and time.time() < self.token_expire_time
CacheValid == access_token # NoToken /\ clock < token_expire_time

FIdle ==
    /\ clock = 0
    /\ access_token = NoToken
    /\ token_expire_time = 0
    /\ fetches = 0

SIdle ==
    /\ s_pc = "idle"
    /\ receive_id = NoneId
    /\ receive_id_type = "open_id"
    /\ token = NoToken
    /\ obtained_at = 0
    /\ posts = <<>>
    /\ sent = FALSE

\* Time passes, also while a request is in flight.
Tick ==
    /\ clock + TickStep <= MaxTicks * TickStep
    /\ clock' = clock + TickStep
    /\ UNCHANGED <<credentials, access_token, token_expire_time, fetches>>
    /\ UNCHANGED <<s_vars, w_vars>>

\* send_api_message up to the token request: _get_access_token returns the
\* cached token, or None without credentials, or goes on to fetch one.
SendApiMessage ==
    /\ s_pc = "idle"
    /\ w_pc = "idle"
    /\ fetches < MaxTokens
    /\ \E rid \in ReceiveIds, rtype \in ReceiveIdTypes :
        /\ receive_id' = rid
        /\ receive_id_type' = rtype
    /\ posts' = <<>>
    /\ IF CacheValid
       THEN /\ token' = access_token
            /\ obtained_at' = clock
            /\ s_pc' = "post"
            /\ sent' = FALSE
       ELSE IF ~credentials
       THEN /\ token' = NoToken
            /\ obtained_at' = clock
            /\ s_pc' = "done"
            /\ sent' = FALSE
       ELSE /\ s_pc' = "fetch"
            /\ UNCHANGED <<token, obtained_at, sent>>
    /\ UNCHANGED f_vars

\* The token endpoint answers with code 0: the cache is overwritten with the
\* token (None if the body carries none) and time.time() + expire - 300.
TokenGranted ==
    /\ s_pc = "fetch"
    /\ \E expire \in Lifetimes \cup {DEFAULT_EXPIRE}, has_token \in BOOLEAN :
        LET t == IF has_token THEN [n |-> fetches + 1, expires |-> clock + expire]
                 ELSE NoToken
        IN  /\ access_token' = t
            /\ token_expire_time' = clock + expire - MARGIN
            /\ fetches' = fetches + 1
            /\ token' = t
            /\ obtained_at' = clock
            /\ s_pc' = IF has_token THEN "post" ELSE "done"
    /\ sent' = FALSE
    /\ UNCHANGED <<clock, credentials, receive_id, receive_id_type, posts>>

\* The token request raises, or answers with a non-zero code:
\* _get_access_token returns None and send_api_message returns False.
TokenRefused ==
    /\ s_pc = "fetch"
    /\ token' = NoToken
    /\ obtained_at' = clock
    /\ s_pc' = "done"
    /\ sent' = FALSE
    /\ UNCHANGED f_vars
    /\ UNCHANGED <<receive_id, receive_id_type, posts>>

\* The try block of send_api_message: receive_id.startswith raises on None;
\* otherwise one POST, and True only for status 200 with code 0.
PostMessage ==
    /\ s_pc = "post"
    /\ IF receive_id.none
       THEN /\ posts' = posts
            /\ sent' = FALSE
       ELSE \E r \in PostResponses :
            /\ posts' = Append(posts,
                    [token           |-> token,
                     obtained_at     |-> obtained_at,
                     receive_id      |-> receive_id,
                     receive_id_type |-> InferredType(receive_id, receive_id_type),
                     response        |-> r])
            /\ sent' = ApiSuccess(r)
    /\ s_pc' = "done"
    /\ UNCHANGED f_vars
    /\ UNCHANGED <<receive_id, receive_id_type, token, obtained_at>>

\* The caller takes the boolean; only the token cache outlives the call.
SendDone ==
    /\ s_pc = "done"
    /\ s_pc' = "idle"
    /\ receive_id' = NoneId
    /\ receive_id_type' = "open_id"
    /\ token' = NoToken
    /\ obtained_at' = 0
    /\ posts' = <<>>
    /\ sent' = FALSE
    /\ UNCHANGED f_vars

WIdle ==
    /\ w_pc = "idle"
    /\ w_posts = <<>>
    /\ w_sent = FALSE

\* send_webhook_message, from entry to return: one POST to the webhook URL
\* with a Content-Type header only, and True only for status 200 with code 0.
SendWebhookMessage ==
    /\ w_pc = "idle"
    /\ s_pc = "idle"
    /\ \E r \in PostResponses :
        /\ w_posts' = <<[url |-> "webhook", authorization |-> NoToken, response |-> r]>>
        /\ w_sent' = WebhookSuccess(r)
    /\ w_pc' = "done"
    /\ UNCHANGED <<f_vars, s_vars>>

\* The caller takes the boolean.
WebhookDone ==
    /\ w_pc = "done"
    /\ w_pc' = "idle"
    /\ w_posts' = <<>>
    /\ w_sent' = FALSE
    /\ UNCHANGED <<f_vars, s_vars>>

(***************************************************************************)
(* The request handlers (main.py).  A handler's request is served by one   *)
(* action unless the handler awaits in between.                            *)
(***************************************************************************)
\* The longest listing get_issues returns to a handler.
MaxListing == 6

\* The slices of find_beginner_issues: issues[:5], analyzed_issues[:5] and
\* analyzed_issues[:10].
ANALYZED_PREFIX == 5
DIGEST_CAP == 5
RETURNED_CAP == 10

Min(a, b) == IF a < b THEN a ELSE b

\* s[:n]
Take(s, n) == SubSeq(s, 1, Min(Len(s), n))

\* The issue_dict a handler builds of a listed GitHubIssue: it has an id, a
\* string body (data['body'] or '') and a list of label names.
IssueDict == [hasId |-> TRUE, body |-> "text", labels |-> "strings"]

\* A completion whose text carries the object o in a fenced block.
Fenced(o) == [transport |-> "ok", text |-> Text(Obj(o), NoMatch, Invalid)]

\* What the model answers to a handler's analysis call.
HandlerCompletions ==
    {Fenced([complexity_score |-> 2, difficulty_level |-> "beginner"]),
     Fenced([complexity_score |-> 15, difficulty_level |-> "beginner",
             required_skills |-> <<"Java">>]),
     Fenced([difficulty_level |-> "expert"]),
     [transport |-> "error", text |-> NoneText]}

\* Faulty variant of KeepTier: only the tier "advanced" is dropped.
KeepTierNotAdvanced(t) == t # "advanced"

\* analysis.difficulty_level in ['beginner', 'intermediate']
KeepTier(t) == t \in {"beginner", "intermediate"}

\* The for loop over issues[:5] from item i on; cs[i] is the completion the
\* model gives for the i-th listed issue.  An item whose analysis raises is
\* skipped by the except clause.
RECURSIVE AnalyzedIssues(_, _)
AnalyzedIssues(cs, i) ==
    IF i > Len(cs) THEN <<>>
    ELSE LET a == analyze_issue(IssueDict, cs[i]) IN
         IF a.kind = "record" /\ KeepTier(a.rec.difficulty_level)
         THEN <<[issue |-> i, analysis |-> a.rec]>> \o AnalyzedIssues(cs, i + 1)
         ELSE AnalyzedIssues(cs, i + 1)

\* The key of the sort: x['analysis']['complexity_score']
Score(x) == x.analysis.complexity_score

\* x put behind every item of the sorted list whose key is not larger.
RECURSIVE InsertByScore(_, _)
InsertByScore(sorted, x) ==
    IF sorted = <<>> THEN <<x>>
    ELSE IF Score(x) < Score(Head(sorted)) THEN <<x>> \o sorted
    ELSE <<Head(sorted)>> \o InsertByScore(Tail(sorted), x)

\* Faulty variant of SortByScore: the list is left in listing order.
Unsorted(s) == s

\* list.sort(key=...): ascending and stable.
RECURSIVE SortByScore(_)
SortByScore(s) ==
    IF s = <<>> THEN <<>>
    ELSE InsertByScore(SortByScore(SubSeq(s, 1, Len(s) - 1)), s[Len(s)])

\* The recommendation dict built of one analyzed item.
Recommendation(item) ==
    [issue           |-> item.issue,
     difficulty      |-> item.analysis.difficulty_level,
     required_skills |-> item.analysis.required_skills]

Recommendations(items) == [i \in 1..Len(items) |-> Recommendation(items[i])]

\* One call of send_daily_summary: its arguments and the boolean it returned.
Digest(found, recs, delivered) ==
    [issues_found |-> found, recommendations |-> recs, delivered |-> delivered]

Http500 ==
    [status |-> 500, analyses |-> <<>>, issues |-> <<>>,
     total_issues_found |-> 0, recommended_issues |-> 0, digests |-> <<>>]

\* The listing the loop runs over: the labelled one, or the one of all open
\* issues if the labelled one is empty.
Listing(req) == IF req.labelled > 0 THEN req.labelled ELSE req.open

\* find_beginner_issues, from the request to the response.
find_beginner_issues(req) ==
    IF req.repository_info = "raise" THEN Http500
    ELSE LET analyzed_issues == SortByScore(AnalyzedIssues(req.completions, 1)) IN
         [status             |-> 200,
          analyses           |-> [i \in 1..Len(req.completions) |->
                                     analyze_issue(IssueDict, req.completions[i])],
          issues             |-> Take(analyzed_issues, RETURNED_CAP),
          total_issues_found |-> Listing(req),
          recommended_issues |-> Len(analyzed_issues),
          digests            |->
              IF req.send_notification /\ analyzed_issues # <<>>
              THEN <<Digest(Listing(req),
                            Recommendations(Take(analyzed_issues, DIGEST_CAP)),
                            req.delivered)>>
              ELSE <<>>]

NoRequest == [repository_info |-> "none"]

DIdle ==
    /\ d_pc = "idle"
    /\ d_in = NoRequest
    /\ d_out = Http500

\* One request of POST /api/find-beginner-issues.  The second listing is
\* fetched only if the first is empty, the model is asked once for each issue
\* of the prefix.
FindBeginnerIssues ==
    /\ d_pc = "idle"
    /\ \E info \in {"ok", "raise"}, labelled, open \in 0..MaxListing,
          notify, delivered \in BOOLEAN :
        /\ labelled > 0 => open = 0
        /\ info = "raise" => labelled = 0 /\ open = 0
        /\ \E cs \in [1..(IF info = "raise" THEN 0
                          ELSE Min(IF labelled > 0 THEN labelled ELSE open,
                                   ANALYZED_PREFIX)) -> HandlerCompletions] :
            LET req == [repository_info   |-> info,
                        labelled          |-> labelled,
                        open              |-> open,
                        completions       |-> cs,
                        send_notification |-> notify,
                        delivered         |-> delivered]
            IN  /\ d_in' = req
                /\ d_out' = find_beginner_issues(req)
    /\ d_pc' = "done"

\* The response has gone out; the handler keeps no state between requests.
FindBeginnerIssuesDone ==
    /\ d_pc = "done"
    /\ d_pc' = "idle"
    /\ d_in' = NoRequest
    /\ d_out' = Http500

(***************************************************************************)
(* search_bigdata_projects                                                 *)
(***************************************************************************)
\* The longest project catalog projects.yaml carries.
MaxCatalog == 2

\* filtered_projects[:5]
SEARCH_PREFIX == 5

\* str.lower(), on the letters the model uses.
LowerChar(ch) ==
    CASE ch = "S" -> "s"
      [] ch = "P" -> "p"
      [] ch = "Q" -> "q"
      [] OTHER -> ch

Lower(chars) == [i \in 1..Len(chars) |-> LowerChar(chars[i])]

\* needle in hay
Contains(hay, needle) ==
    \E i \in 1..(Len(hay) - Len(needle) + 1) :
        SubSeq(hay, i, i + Len(needle) - 1) = needle

\* The value of the beginner_friendly key of a catalog entry.
Flags == {"absent", "true", "false"}

\* Catalog entries, by the keys the handlers read; an entry may lack its
\* name or its owner.
Projects ==
    [has_name : {TRUE}, has_owner : BOOLEAN, name : {<<"S", "p">>, <<"k">>},
     category : {<<"Q">>}, beginner_friendly : Flags]
    \cup [has_name : {FALSE}, has_owner : {TRUE}, name : {<<>>},
          category : {<<"Q">>}, beginner_friendly : {"true", "false"}]

\* request.keywords
KeywordLists == {<<>>, << <<"S">> >>, << <<"q">> >>, << <<"z">>, <<"p">> >>}

\* request.experience_level, any string
ExperienceLevels == {"beginner", "intermediate", "advanced", "expert"}

\* Faulty variant of FlagGet: an entry without the key counts as false
\* whatever the default.
FlagGetDefaultFalse(project, default) == project.beginner_friendly = "true"

\* project.get('beginner_friendly', default)
FlagGet(project, default) ==
    IF project.beginner_friendly = "absent" THEN default
    ELSE project.beginner_friendly = "true"

\* matches_keyword, for an entry that has a name
matches_keyword(keywords, project) ==
    \/ keywords = <<>>
    \/ \E k \in 1..Len(keywords) :
        \/ Contains(Lower(project.name), Lower(keywords[k]))
        \/ Contains(Lower(project.category), Lower(keywords[k]))

\* Faulty variant of matches_experience: the flag is not looked at.
MatchesAnyFlag(level, project) == level \in {"beginner", "intermediate", "advanced"}

\* matches_experience
matches_experience(level, project) ==
    \/ level = "beginner" /\ FlagGet(project, FALSE)
    \/ level = "intermediate"
    \/ level = "advanced" /\ ~FlagGet(project, TRUE)

\* project['name'] is read only when there are keywords; it is a KeyError on
\* an entry without a name, outside every per-project try.
FilterRaises(catalog, keywords) ==
    keywords # <<>> /\ \E i \in 1..Len(catalog) : ~catalog[i].has_name

\* filtered_projects, as the catalog positions of its entries
FilteredProjects(catalog, keywords, level) ==
    SelectSeq([i \in 1..Len(catalog) |-> i],
              LAMBDA i : /\ matches_keyword(keywords, catalog[i])
                         /\ matches_experience(level, catalog[i]))

\* analyze_project: the prompt builder it calls before its try,
\* _build_project_analysis_prompt, is not a method of AIAnalyzer.
analyze_project == Raised("AttributeError")

\* The body of the per-project try for one entry: "KeyError" on a missing
\* owner or name, the tracker's exception, or what analyze_project does.
SearchOne(project, info) ==
    IF ~project.has_owner \/ ~project.has_name THEN Raised("KeyError")
    ELSE IF info = "raise" THEN Raised("RequestException")
    ELSE analyze_project

\* The except clause of the per-project try formats project['owner'] and
\* project['name'] into its log line.
SearchHandlerRaises(project) == ~project.has_owner \/ ~project.has_name

\* The per-project loop from position k of the filtered prefix on: the
\* entries visited, each with what its processing did, up to and including
\* the one whose except clause raised.
RECURSIVE SearchLoop(_, _, _, _)
SearchLoop(catalog, infos, prefix, k) ==
    IF k > Len(prefix) THEN <<>>
    ELSE LET project == catalog[prefix[k]]
             did == SearchOne(project, infos[prefix[k]])
             entry == [project |-> prefix[k], kind |-> did.kind, exc |-> did.exc,
                       aborted |-> did.kind = "raised" /\ SearchHandlerRaises(project)]
         IN  IF entry.aborted THEN <<entry>>
             ELSE <<entry>> \o SearchLoop(catalog, infos, prefix, k + 1)

Search500 ==
    [status |-> 500, filter_done |-> FALSE, filtered |-> <<>>, visited |-> <<>>,
     total_projects_found |-> 0, analyzed_projects |-> 0]

\* search_bigdata_projects, from the request to the response.
search_bigdata_projects(req) ==
    IF req.config = "raise" \/ FilterRaises(req.catalog, req.keywords) THEN Search500
    ELSE LET filtered == FilteredProjects(req.catalog, req.keywords, req.experience_level)
             visited == SearchLoop(req.catalog, req.repository_info,
                                   Take(filtered, SEARCH_PREFIX), 1)
             results == SelectSeq(visited, LAMBDA e : e.kind = "record")
         IN  [status               |-> IF \E k \in 1..Len(visited) : visited[k].aborted
                                       THEN 500 ELSE 200,
              filter_done          |-> TRUE,
              filtered             |-> filtered,
              visited              |-> visited,
              total_projects_found |-> Len(filtered),
              analyzed_projects    |-> Len(results)]

NoSearch == [config |-> "none"]

CIdle ==
    /\ c_pc = "idle"
    /\ c_in = NoSearch
    /\ c_out = Search500

\* One request of POST /api/search-bigdata-projects.
SearchBigdataProjects ==
    /\ c_pc = "idle"
    /\ \E config \in {"ok", "raise"}, keywords \in KeywordLists,
          level \in ExperienceLevels :
        \E catalog \in (IF config = "raise" THEN {<<>>} ELSE SeqsUpTo(Projects, MaxCatalog)) :
        \E infos \in [1..Len(catalog) -> {"ok", "raise"}] :
            LET req == [config           |-> config,
                        catalog          |-> catalog,
                        keywords         |-> keywords,
                        experience_level |-> level,
                        repository_info  |-> infos]
            IN  /\ c_in' = req
                /\ c_out' = search_bigdata_projects(req)
    /\ c_pc' = "done"

\* The response has gone out; the handler keeps no state between requests.
SearchBigdataProjectsDone ==
    /\ c_pc = "done"
    /\ c_pc' = "idle"
    /\ c_in' = NoSearch
    /\ c_out' = Search500

(***************************************************************************)
(* daily_monitor.  The handler sleeps between two projects; the model      *)
(* takes one step for each project of the prefix and learns what a catalog *)
(* entry holds when the loop reaches it.                                   *)
(***************************************************************************)
\* The longest catalog a sweep is run on.
MaxMonitored == 11

\* bigdata_projects[:10], issues[:3] and all_recommendations[:5]
MONITOR_PREFIX == 10
ISSUES_PREFIX == 3
SUMMARY_CAP == 5

\* A catalog entry as the sweep reads it: with or without owner and name.
MonitorProjects == [has_owner : BOOLEAN, has_name : BOOLEAN]

\* What the tracker lists for a project and what the model answers for the
\* issues of the analyzed prefix: nothing listed; one issue, kept; four
\* issues, of which the first is kept, the second dropped as "expert", the
\* third kept on the default analysis and the fourth never analyzed.
MonitorListings ==
    {[listed |-> 0, completions |-> <<>>],
     [listed |-> 1,
      completions |-> <<Fenced([complexity_score |-> 15, difficulty_level |-> "beginner",
                                required_skills |-> <<"Java">>])>>],
     [listed |-> 4,
      completions |-> <<Fenced([complexity_score |-> 2, difficulty_level |-> "beginner"]),
                        Fenced([difficulty_level |-> "expert"]),
                        [transport |-> "error", text |-> NoneText]>>]}

\* The recommendations the inner loop appends for project p, from issue i
\* on; an issue whose analysis raises is skipped by the inner except.
RECURSIVE MonitorIssues(_, _, _)
MonitorIssues(p, cs, i) ==
    IF i > Len(cs) THEN <<>>
    ELSE LET a == analyze_issue(IssueDict, cs[i]) IN
         IF a.kind = "record" /\ KeepTier(a.rec.difficulty_level)
         THEN <<[project |-> p, issue |-> i, difficulty |-> a.rec.difficulty_level]>>
              \o MonitorIssues(p, cs, i + 1)
         ELSE MonitorIssues(p, cs, i + 1)

Monitor500 ==
    [status |-> 500, monitored_projects |-> 0, total_issues_found |-> 0,
     recommendations_found |-> 0, digests |-> <<>>]

\* Faulty variant of MonitorResponse: the count reported is that of the
\* digest.
MonitorResponseCountsDigest(len, recs, total, delivered) ==
    [status                |-> 200,
     monitored_projects    |-> Min(len, MONITOR_PREFIX),
     total_issues_found    |-> total,
     recommendations_found |-> Len(Take(recs, SUMMARY_CAP)),
     digests               |->
         IF recs # <<>>
         THEN <<Digest(total, Take(recs, SUMMARY_CAP), delivered)>>
         ELSE <<>>]

\* After the loop: the digest, if anything was collected, and the response.
MonitorResponse(len, recs, total, delivered) ==
    [status                |-> 200,
     monitored_projects    |-> Min(len, MONITOR_PREFIX),
     total_issues_found    |-> total,
     recommendations_found |-> Len(recs),
     digests               |->
         IF recs # <<>>
         THEN <<Digest(total, Take(recs, SUMMARY_CAP), delivered)>>
         ELSE <<>>]

MIdle ==
    /\ m_pc = "idle"
    /\ m_config = "none"
    /\ m_len = 0
    /\ m_index = 0
    /\ all_recommendations = <<>>
    /\ total_issues = 0
    /\ m_served = 0
    /\ m_calls = <<>>
    /\ m_out = Monitor500

\* The request arrives: the catalog is loaded.  A load that raises ends the
\* request with a 500, an empty catalog with the response.
DailyMonitor ==
    /\ m_pc = "idle"
    /\ \E config \in {"ok", "raise"}, len \in 0..MaxMonitored, delivered \in BOOLEAN :
        /\ config = "raise" => len = 0
        /\ len > 0 \/ config = "raise" => delivered
        /\ m_config' = config
        /\ m_len' = len
        /\ m_pc' = IF config = "ok" /\ len > 0 THEN "loop" ELSE "done"
        /\ m_out' = IF config = "ok" /\ len = 0
                    THEN MonitorResponse(len, <<>>, 0, delivered)
                    ELSE Monitor500
    /\ UNCHANGED <<m_index, all_recommendations, total_issues, m_served, m_calls>>

\* One project of the prefix.  project['owner'] and project['name'] are
\* KeyErrors on an entry that lacks them; the outer except formats
\* project['name'] into its log line, which raises again on an entry without
\* a name and ends the request with a 500.  After the last project of the
\* prefix the digest is sent and the response returned.
MonitorProject ==
    /\ m_pc = "loop"
    /\ \E project \in MonitorProjects, l \in MonitorListings, delivered \in BOOLEAN :
        LET p == m_index + 1
            raised == ~project.has_owner \/ ~project.has_name
            aborted == raised /\ ~project.has_name
            last == p = Min(m_len, MONITOR_PREFIX)
            cs == Take(l.completions, ISSUES_PREFIX)
            recs == IF raised THEN all_recommendations
                    ELSE all_recommendations \o MonitorIssues(p, cs, 1)
            total == IF raised THEN total_issues ELSE total_issues + l.listed
        IN  /\ raised => l.listed = 0
            /\ ~(last /\ ~aborted /\ recs # <<>>) => delivered
            /\ m_index' = p
            /\ all_recommendations' = recs
            /\ total_issues' = total
            /\ m_served' = IF raised THEN m_served ELSE m_served + l.listed
            /\ m_calls' = IF raised THEN m_calls
                          ELSE m_calls \o [i \in 1..Len(cs) |-> [project |-> p, issue |-> i]]
            /\ m_pc' = IF aborted \/ last THEN "done" ELSE "loop"
            /\ m_out' = IF aborted THEN Monitor500
                        ELSE IF last THEN MonitorResponse(m_len, recs, total, delivered)
                        ELSE m_out
    /\ UNCHANGED <<m_config, m_len>>

\* The response has gone out; the handler keeps no state between requests.
DailyMonitorDone ==
    /\ m_pc = "done"
    /\ m_pc' = "idle"
    /\ m_config' = "none"
    /\ m_len' = 0
    /\ m_index' = 0
    /\ all_recommendations' = <<>>
    /\ total_issues' = 0
    /\ m_served' = 0
    /\ m_calls' = <<>>
    /\ m_out' = Monitor500

(***************************************************************************)
(* FeishuCardBuilder.build_daily_summary (services/feishu_client.py)       *)
(***************************************************************************)
\* The longest recommendation list handed to the builder.
MaxRecommendations == 6

\* recommendations[:5] of the loop and recommendations[:3] of the divider
\* test
CARD_BLOCKS == 5
DIVIDER_BLOCKS == 3

\* Recommendation dicts: a title and, or not, a list of skills.
CardRecommendations ==
    [title : {"a", "b"}, has_skills : {TRUE}, required_skills : {<<"Java", "SQL">>}]
    \cup [title : {"a"}, has_skills : {FALSE}, required_skills : {<<>>}]

\* sep.join(strings)
RECURSIVE Join(_, _)
Join(sep, strings) ==
    IF Len(strings) <= 1 THEN strings
    ELSE <<Head(strings), sep>> \o Join(sep, Tail(strings))

\* The elements of a card: text blocks, dividers and the closing note.  n is
\* the number the block's text opens with, 0 for the summary block.
Div(n, title, skills) == [tag |-> "div", n |-> n, title |-> title, skills |-> skills]
Hr == [tag |-> "hr", n |-> 0, title |-> "", skills |-> <<>>]
Note == [tag |-> "note", n |-> 0, title |-> "", skills |-> <<>>]

\* for i, rec in enumerate(recommendations[:5]), from index i on: the text
\* block of rec, its skills joined (rec.get("required_skills", [])), then a
\* divider if i < len(recommendations[:3]) - 1.
RECURSIVE CardLoop(_, _)
CardLoop(recommendations, i) ==
    IF i >= Len(Take(recommendations, CARD_BLOCKS)) THEN <<>>
    ELSE LET rec == recommendations[i + 1]
             skills == Join(",", IF rec.has_skills THEN rec.required_skills ELSE <<>>)
         IN  <<Div(i + 1, rec.title, skills)>>
             \o (IF i < Len(Take(recommendations, DIVIDER_BLOCKS)) - 1 THEN <<Hr>> ELSE <<>>)
             \o CardLoop(recommendations, i + 1)

\* build_daily_summary: the summary block and a divider, the loop, a divider
\* and the note.
build_daily_summary(recommendations) ==
    <<Div(0, "summary", <<>>), Hr>> \o CardLoop(recommendations, 0) \o <<Hr, Note>>

KIdle ==
    /\ k_pc = "idle"
    /\ k_in = <<>>
    /\ k_card = <<>>

\* One call of build_daily_summary.
BuildDailySummary ==
    /\ k_pc = "idle"
    /\ \E recommendations \in SeqsUpTo(CardRecommendations, MaxRecommendations) :
        /\ k_in' = recommendations
        /\ k_card' = build_daily_summary(recommendations)
    /\ k_pc' = "done"

\* The caller takes the card.
BuildDailySummaryDone ==
    /\ k_pc = "done"
    /\ k_pc' = "idle"
    /\ k_in' = <<>>
    /\ k_card' = <<>>

(***************************************************************************)
(* analyze_issue, the handler of POST /api/analyze-issue                   *)
(***************************************************************************)
\* The record get_issue_details returns, as the tracker sends it: it has an
\* id, its body is a string or null, its labels are a list of objects,
\* empty or not.
IssueDetails == [hasId : {TRUE}, body : {"text", "null"}, labels : {"empty", "objects"}]

\* request.user_skills
SkillLists == {<<>>, <<"Java">>, <<"Java", "SQL">>}

\* Faulty variant of PlanWanted: a plan is asked for whatever the skills.
PlanAlways(user_skills) == TRUE

\* if request.user_skills
PlanWanted(user_skills) == user_skills # <<>>

\* generate_contribution_plan, on an analysis record whose fields are lists
\* and strings: the model's text, or the fixed text of the except clause.
generate_contribution_plan(c) ==
    IF c.transport = "error" THEN "unavailable" ELSE "text"

\* The calls up to the analysis.
Fetched == <<"get_issue_details", "get_readme", "get_contributing_guide", "analyze_issue">>

Endpoint500(trace) == [status |-> 500, trace |-> trace, contribution_plan |-> "null"]

\* analyze_issue of main.py, from the request to the response.  The boolean
\* of send_issue_recommendation is dropped.
analyze_issue_endpoint(req) ==
    IF req.details = "raise" THEN Endpoint500(<<"get_issue_details">>)
    ELSE IF analyze_issue(req.issue_data, req.completion).kind = "raised"
    THEN Endpoint500(Fetched)
    ELSE [status            |-> 200,
          trace             |-> Fetched
                                \o (IF PlanWanted(req.user_skills)
                                    THEN <<"generate_contribution_plan">> ELSE <<>>)
                                \o <<"send_issue_recommendation">>,
          contribution_plan |-> IF PlanWanted(req.user_skills)
                                THEN generate_contribution_plan(req.plan_completion)
                                ELSE "null"]

NoEndpointRequest == [details |-> "none"]

EIdle ==
    /\ e_pc = "idle"
    /\ e_in = NoEndpointRequest
    /\ e_out = Endpoint500(<<>>)

\* One request of POST /api/analyze-issue.
AnalyzeIssueEndpoint ==
    /\ e_pc = "idle"
    /\ \E details \in {"ok", "raise"}, i \in IssueDetails, c \in HandlerCompletions,
          user_skills \in SkillLists, transport \in {"ok", "error"},
          r \in PostResponses :
        LET req == [details         |-> details,
                    issue_data      |-> i,
                    completion      |-> c,
                    user_skills     |-> user_skills,
                    plan_completion |-> [transport |-> transport, text |-> NoneText],
                    delivered       |-> WebhookSuccess(r)]
        IN  /\ e_in' = req
            /\ e_out' = analyze_issue_endpoint(req)
    /\ e_pc' = "done"

\* The response has gone out; the handler keeps no state between requests.
AnalyzeIssueEndpointDone ==
    /\ e_pc = "done"
    /\ e_pc' = "idle"
    /\ e_in' = NoEndpointRequest
    /\ e_out' = Endpoint500(<<>>)

HIdle == DIdle /\ CIdle /\ MIdle /\ KIdle /\ EIdle

(***************************************************************************)
(* Two threads in FeishuClient.send_api_message.  Nothing guards the       *)
(* client's attributes: a thread may be preempted between any two of its   *)
(* reads and writes of self.access_token and self.token_expire_time.       *)
(***************************************************************************)
Threads == {1, 2}

\* A code-0 answer of the token endpoint: the n-th, with or without a token,
\* the token expiring at expires, expire its declared lifetime.
NoResponse == [n |-> 0, token |-> NoToken, expire |-> 0]

NoPost == [token |-> NoToken, at |-> 0]

TIdle ==
    /\ t_pc = [t \in Threads |-> "idle"]
    /\ t_resp = [t \in Threads |-> NoResponse]
    /\ t_token = [t \in Threads |-> NoToken]
    /\ t_post = [t \in Threads |-> NoPost]
    /\ token_from = 0
    /\ expiry_from = 0

\* A thread calls send_api_message and with it _get_access_token.
ThreadCalls ==
    \E t \in Threads :
        /\ t_pc[t] = "idle"
        /\ t_pc' = [t_pc EXCEPT ![t] = "check_token"]
        /\ t_token' = [t_token EXCEPT ![t] = NoToken]
        /\ t_post' = [t_post EXCEPT ![t] = NoPost]
        /\ UNCHANGED <<t_resp, token_from, expiry_from, f_vars>>

\* if self.access_token ...: the first read of the cache.
ThreadChecksToken ==
    \E t \in Threads :
        /\ t_pc[t] = "check_token"
        /\ t_pc' = [t_pc EXCEPT ![t] = IF access_token # NoToken
                                       THEN "check_expiry" ELSE "request"]
        /\ UNCHANGED <<t_resp, t_token, t_post, token_from, expiry_from, f_vars>>

\* ... and time.time() < self.token_expire_time
ThreadChecksExpiry ==
    \E t \in Threads :
        /\ t_pc[t] = "check_expiry"
        /\ t_pc' = [t_pc EXCEPT ![t] = IF clock < token_expire_time
                                       THEN "return" ELSE "request"]
        /\ UNCHANGED <<t_resp, t_token, t_post, token_from, expiry_from, f_vars>>

\* The token endpoint answers with code 0; it issues MaxTokens tokens at
\* most.
ThreadGranted ==
    \E t \in Threads :
        /\ t_pc[t] = "request"
        /\ credentials
        /\ fetches < MaxTokens
        /\ \E expire \in Lifetimes \cup {DEFAULT_EXPIRE}, has_token \in BOOLEAN :
            t_resp' = [t_resp EXCEPT ![t] =
                        [n      |-> fetches + 1,
                         token  |-> IF has_token
                                    THEN [n |-> fetches + 1, expires |-> clock + expire]
                                    ELSE NoToken,
                         expire |-> expire]]
        /\ fetches' = fetches + 1
        /\ t_pc' = [t_pc EXCEPT ![t] = "store_token"]
        /\ UNCHANGED <<t_token, t_post, token_from, expiry_from>>
        /\ UNCHANGED <<clock, credentials, access_token, token_expire_time>>

\* The token request raises or answers with a non-zero code, or there are
\* no credentials: _get_access_token returns None, the send returns False.
ThreadRefused ==
    \E t \in Threads :
        /\ t_pc[t] = "request"
        /\ t_pc' = [t_pc EXCEPT ![t] = "done"]
        /\ UNCHANGED <<t_resp, t_token, t_post, token_from, expiry_from, f_vars>>

\* self.access_token = result.get("tenant_access_token")
ThreadStoresToken ==
    \E t \in Threads :
        /\ t_pc[t] = "store_token"
        /\ access_token' = t_resp[t].token
        /\ token_from' = t_resp[t].n
        /\ t_pc' = [t_pc EXCEPT ![t] = "store_expiry"]
        /\ UNCHANGED <<t_resp, t_token, t_post, expiry_from>>
        /\ UNCHANGED <<clock, credentials, token_expire_time, fetches>>

\* self.token_expire_time = time.time() + result.get("expire", 3600) - 300
ThreadStoresExpiry ==
    \E t \in Threads :
        /\ t_pc[t] = "store_expiry"
        /\ token_expire_time' = clock + t_resp[t].expire - MARGIN
        /\ expiry_from' = t_resp[t].n
        /\ t_pc' = [t_pc EXCEPT ![t] = "return"]
        /\ UNCHANGED <<t_resp, t_token, t_post, token_from>>
        /\ UNCHANGED <<clock, credentials, access_token, fetches>>

\* return self.access_token, on either path: the attribute is read again.
\* Without a token the send returns False.
ThreadReturns ==
    \E t \in Threads :
        /\ t_pc[t] = "return"
        /\ t_token' = [t_token EXCEPT ![t] = access_token]
        /\ t_pc' = [t_pc EXCEPT ![t] = IF access_token # NoToken THEN "post" ELSE "done"]
        /\ UNCHANGED <<t_resp, t_post, token_from, expiry_from, f_vars>>

\* The message POST, with the bearer token the thread holds.
ThreadPosts ==
    \E t \in Threads :
        /\ t_pc[t] = "post"
        /\ t_post' = [t_post EXCEPT ![t] = [token |-> t_token[t], at |-> clock]]
        /\ t_pc' = [t_pc EXCEPT ![t] = "done"]
        /\ UNCHANGED <<t_resp, t_token, token_from, expiry_from, f_vars>>

\* The send returns to its caller.
ThreadDone ==
    \E t \in Threads :
        /\ t_pc[t] = "done"
        /\ t_pc' = [t_pc EXCEPT ![t] = "idle"]
        /\ t_resp' = [t_resp EXCEPT ![t] = NoResponse]
        /\ UNCHANGED <<t_token, t_post, token_from, expiry_from, f_vars>>

OIdle == RIdle /\ TIdle

(***************************************************************************)
(* Specifications, one per component and one per request handler: they     *)
(* share no state.                                                         *)
(***************************************************************************)
AIdle == InitAnalyze

\* The state after the lifespan handler has constructed the three clients.
Init == AIdle /\ GIdle /\ FIdle /\ SIdle /\ WIdle /\ HIdle /\ OIdle /\ credentials = TRUE

\* The same, with or without the app credentials in the settings.
InitSend == AIdle /\ GIdle /\ FIdle /\ SIdle /\ WIdle /\ HIdle /\ OIdle /\ credentials \in BOOLEAN

NextAnalyze ==
    \/ AnalyzeIssue /\ UNCHANGED <<g_vars, f_vars, s_vars, w_vars, h_vars, o_vars>>
    \/ AnalyzeDone /\ UNCHANGED <<g_vars, f_vars, s_vars, w_vars, h_vars, o_vars>>

SpecAnalyze == Init /\ [][NextAnalyze]_vars

NextIssues ==
    \/ GetIssues /\ UNCHANGED <<a_vars, f_vars, s_vars, w_vars, h_vars, o_vars>>
    \/ FetchPage /\ UNCHANGED <<a_vars, f_vars, s_vars, w_vars, h_vars, o_vars>>
    \/ GetIssuesDone /\ UNCHANGED <<a_vars, f_vars, s_vars, w_vars, h_vars, o_vars>>

SpecIssues == Init /\ [][NextIssues]_vars

NextSend ==
    \/ Tick /\ UNCHANGED <<a_vars, g_vars, h_vars, o_vars>>
    \/ SendApiMessage /\ UNCHANGED <<a_vars, g_vars, w_vars, h_vars, o_vars>>
    \/ TokenGranted /\ UNCHANGED <<a_vars, g_vars, w_vars, h_vars, o_vars>>
    \/ TokenRefused /\ UNCHANGED <<a_vars, g_vars, w_vars, h_vars, o_vars>>
    \/ PostMessage /\ UNCHANGED <<a_vars, g_vars, w_vars, h_vars, o_vars>>
    \/ SendDone /\ UNCHANGED <<a_vars, g_vars, w_vars, h_vars, o_vars>>
    \/ SendWebhookMessage /\ UNCHANGED <<a_vars, g_vars, h_vars, o_vars>>
    \/ WebhookDone /\ UNCHANGED <<a_vars, g_vars, h_vars, o_vars>>

SpecSend == InitSend /\ [][NextSend]_vars

NextDiscovery ==
    \/ FindBeginnerIssues /\ UNCHANGED <<a_vars, g_vars, f_vars, s_vars, w_vars, c_vars, m_vars, k_vars, e_vars, o_vars>>
    \/ FindBeginnerIssuesDone /\ UNCHANGED <<a_vars, g_vars, f_vars, s_vars, w_vars, c_vars, m_vars, k_vars, e_vars, o_vars>>

SpecDiscovery == Init /\ [][NextDiscovery]_vars

NextSearch ==
    \/ SearchBigdataProjects /\ UNCHANGED <<a_vars, g_vars, f_vars, s_vars, w_vars, d_vars, m_vars, k_vars, e_vars, o_vars>>
    \/ SearchBigdataProjectsDone /\ UNCHANGED <<a_vars, g_vars, f_vars, s_vars, w_vars, d_vars, m_vars, k_vars, e_vars, o_vars>>

SpecSearch == Init /\ [][NextSearch]_vars

NextMonitor ==
    \/ DailyMonitor /\ UNCHANGED <<a_vars, g_vars, f_vars, s_vars, w_vars, d_vars, c_vars, k_vars, e_vars, o_vars>>
    \/ MonitorProject /\ UNCHANGED <<a_vars, g_vars, f_vars, s_vars, w_vars, d_vars, c_vars, k_vars, e_vars, o_vars>>
    \/ DailyMonitorDone /\ UNCHANGED <<a_vars, g_vars, f_vars, s_vars, w_vars, d_vars, c_vars, k_vars, e_vars, o_vars>>

SpecMonitor == Init /\ [][NextMonitor]_vars

NextCard ==
    \/ BuildDailySummary /\ UNCHANGED <<a_vars, g_vars, f_vars, s_vars, w_vars, d_vars, c_vars, m_vars, e_vars, o_vars>>
    \/ BuildDailySummaryDone /\ UNCHANGED <<a_vars, g_vars, f_vars, s_vars, w_vars, d_vars, c_vars, m_vars, e_vars, o_vars>>

SpecCard == Init /\ [][NextCard]_vars

NextEndpoint ==
    \/ AnalyzeIssueEndpoint /\ UNCHANGED <<a_vars, g_vars, f_vars, s_vars, w_vars, d_vars, c_vars, m_vars, k_vars, o_vars>>
    \/ AnalyzeIssueEndpointDone /\ UNCHANGED <<a_vars, g_vars, f_vars, s_vars, w_vars, d_vars, c_vars, m_vars, k_vars, o_vars>>

SpecEndpoint == Init /\ [][NextEndpoint]_vars

NextDocs ==
    \/ GetReadme /\ UNCHANGED <<a_vars, g_vars, f_vars, s_vars, w_vars, h_vars, t_vars>>
    \/ GetContributingGuide /\ UNCHANGED <<a_vars, g_vars, f_vars, s_vars, w_vars, h_vars, t_vars>>
    \/ GetDocDone /\ UNCHANGED <<a_vars, g_vars, f_vars, s_vars, w_vars, h_vars, t_vars>>

SpecDocs == Init /\ [][NextDocs]_vars

NextThreads ==
    \/ Tick /\ UNCHANGED <<a_vars, g_vars, h_vars, r_vars, t_vars>>
    \/ ThreadCalls /\ UNCHANGED <<a_vars, g_vars, s_vars, w_vars, h_vars, r_vars>>
    \/ ThreadChecksToken /\ UNCHANGED <<a_vars, g_vars, s_vars, w_vars, h_vars, r_vars>>
    \/ ThreadChecksExpiry /\ UNCHANGED <<a_vars, g_vars, s_vars, w_vars, h_vars, r_vars>>
    \/ ThreadGranted /\ UNCHANGED <<a_vars, g_vars, s_vars, w_vars, h_vars, r_vars>>
    \/ ThreadRefused /\ UNCHANGED <<a_vars, g_vars, s_vars, w_vars, h_vars, r_vars>>
    \/ ThreadStoresToken /\ UNCHANGED <<a_vars, g_vars, s_vars, w_vars, h_vars, r_vars>>
    \/ ThreadStoresExpiry /\ UNCHANGED <<a_vars, g_vars, s_vars, w_vars, h_vars, r_vars>>
    \/ ThreadReturns /\ UNCHANGED <<a_vars, g_vars, s_vars, w_vars, h_vars, r_vars>>
    \/ ThreadPosts /\ UNCHANGED <<a_vars, g_vars, s_vars, w_vars, h_vars, r_vars>>
    \/ ThreadDone /\ UNCHANGED <<a_vars, g_vars, s_vars, w_vars, h_vars, r_vars>>

SpecThreads == Init /\ [][NextThreads]_vars

(***************************************************************************)
(* Claims about the Analysis Client, checked under SpecAnalyze.            *)
(***************************************************************************)
Supplied == DOMAIN completion.text.fence.o

\* The model answered, and its text has no fenced block, no brace span that
\* parses and does not parse as a whole.
NoExtractableJSON ==
    /\ model_called
    /\ completion.transport = "ok"
    /\ completion.text.fence.t = "nomatch"
    /\ completion.text.brace.t \in {"nomatch", "invalid"}
    /\ completion.text.whole.t = "invalid"

\* The model answered with a fenced json block that parses to an object.
FencedObject ==
    /\ model_called
    /\ completion.transport = "ok"
    /\ completion.text.content = "str"
    /\ completion.text.fence.t = "object"

\* C1: analyze_issue never raises: every finished call has returned an
\* AnalysisRecord, whatever the issue record and the model outcome.
C1_NeverRaises ==
    a_pc = "done" => analysis.kind = "record"

\* C2: when the model call succeeds and its text has no extractable JSON, the
\* record analyze_issue returns has complexity 0.5, difficulty "intermediate",
\* confidence 0.5 and empty skill list, technical breakdown and learning
\* opportunities.
C2_NoJsonGivesParseDefaults ==
    (a_pc = "done" /\ NoExtractableJSON /\ analysis.kind = "record") =>
        /\ analysis.rec.complexity_score = 5
        /\ analysis.rec.difficulty_level = "intermediate"
        /\ analysis.rec.confidence_score = 5
        /\ analysis.rec.required_skills = <<>>
        /\ analysis.rec.technical_breakdown = EmptyMap
        /\ analysis.rec.learning_opportunities = <<>>

C2_Witness ==
    /\ a_pc = "done"
    /\ NoExtractableJSON
    /\ completion.text.content = "str"
    /\ completion.text.brace.t = "invalid"
    /\ analysis.kind = "record"
    /\ analysis.rec.confidence_score = 5
    /\ analysis.rec.required_skills = <<>>

\* The fields of the returned record that the fenced object supplies carry
\* the supplied values.
SuppliedKept ==
    \A k \in Supplied : analysis.rec[k] = completion.text.fence.o[k]

\* The fields the fenced object leaves out, confidence_score apart.
OtherDefaults ==
    /\ "complexity_score" \notin Supplied => analysis.rec.complexity_score = 5
    /\ "difficulty_level" \notin Supplied => analysis.rec.difficulty_level = "intermediate"
    /\ "required_skills" \notin Supplied => analysis.rec.required_skills = <<>>
    /\ "technical_breakdown" \notin Supplied => analysis.rec.technical_breakdown = EmptyMap
    /\ "learning_opportunities" \notin Supplied => analysis.rec.learning_opportunities = <<>>

\* C3 as stated: a fenced object with only some fields yields the supplied
\* values and, for every field not supplied, the parse-failure defaults,
\* confidence 0.5 among them.
C3_PartialObjectGetsParseFailureDefaults ==
    (a_pc = "done" /\ FencedObject /\ analysis.kind = "record") =>
        /\ SuppliedKept
        /\ OtherDefaults
        /\ "confidence_score" \notin Supplied => analysis.rec.confidence_score = 5

\* C3 as amended: a fenced object with only some fields yields the supplied
\* values and, for every field not supplied, complexity 0.5, difficulty
\* "intermediate", empty lists and maps, and confidence 0.8.
C3_PartialObjectGetsGetDefaults ==
    (a_pc = "done" /\ FencedObject /\ analysis.kind = "record") =>
        /\ SuppliedKept
        /\ OtherDefaults
        /\ "confidence_score" \notin Supplied => analysis.rec.confidence_score = 8

C3_Witness ==
    /\ a_pc = "done"
    /\ FencedObject
    /\ Supplied = {"complexity_score", "difficulty_level"}
    /\ analysis.kind = "record"
    /\ analysis.rec.complexity_score = 15
    /\ analysis.rec.difficulty_level = "expert"
    /\ analysis.rec.confidence_score = 8
    /\ analysis.rec.required_skills = <<>>

\* C4: every AnalysisRecord returned has difficulty_level among beginner,
\* intermediate, advanced.
C4_TierEnumerated ==
    (a_pc = "done" /\ analysis.kind = "record") =>
        analysis.rec.difficulty_level \in Tiers

\* C5: every AnalysisRecord returned has complexity_score and
\* confidence_score within [0,1] (0..10 tenths).
C5_ScoresInUnitInterval ==
    (a_pc = "done" /\ analysis.kind = "record") =>
        /\ analysis.rec.complexity_score \in 0..10
        /\ analysis.rec.confidence_score \in 0..10

(***************************************************************************)
(* Claims about get_issues, checked under SpecIssues.                      *)
(***************************************************************************)
NReq == Len(requested)

\* Page k was fetched and decoded without an exception.
PageOk(k) ==
    /\ served[k].ok
    /\ \A i \in 1..Len(served[k].items) : served[k].items[i] # "bad"

PageFull(k) == Len(served[k].items) = per_page

\* The ids of the items of page k before index n that are not pull requests.
NonPrBefore(k, n) ==
    {ItemId(per_page, k, i) : i \in {j \in 1..Len(served[k].items) :
                                        j < n /\ served[k].items[j] # "pr"}}

NonPrOf(k) == NonPrBefore(k, Len(served[k].items) + 1)

\* The index of the item of page k whose decoding failed.
FailedAt(k) ==
    CHOOSE i \in 1..Len(served[k].items) :
        /\ served[k].items[i] = "bad"
        /\ \A j \in 1..(i - 1) : served[k].items[j] # "bad"

Increasing(q) == \A i, j \in 1..Len(q) : i < j => q[i] < q[j]

Range(q) == {q[i] : i \in 1..Len(q)}

\* C7: pages are requested as 1, 2, 3, ... and page k+1 is requested if and
\* only if pages 1..k each succeeded and each returned exactly per_page
\* items: nothing is requested after a short, empty or failed page.
C7_PagesInOrderUntilShort ==
    /\ \A k \in 1..NReq : requested[k] = k
    /\ \A k \in 1..(NReq - 1) : PageOk(k) /\ PageFull(k)
    /\ g_pc = "loop" => /\ page = NReq + 1
                        /\ \A k \in 1..NReq : PageOk(k) /\ PageFull(k)
    /\ g_pc = "done" => /\ NReq >= 1
                        /\ ~(PageOk(NReq) /\ PageFull(NReq))

C7_Witness ==
    /\ g_pc = "done"
    /\ per_page = 2
    /\ NReq = 3
    /\ PageOk(3)
    /\ Len(served[3].items) = 1

\* C8 as stated: when page k fails (its request or its decoding), the call
\* returns exactly the issues of pages 1..k-1 and requests nothing more.
C8_FailureReturnsEarlierPagesOnly ==
    (g_pc = "done" /\ ~PageOk(NReq)) =>
        /\ Increasing(returned)
        /\ Range(returned) = UNION {NonPrOf(k) : k \in 1..(NReq - 1)}

\* C8 as amended: when page k fails, the call returns the issues of pages
\* 1..k-1 followed by the issues of page k decoded before the failing item
\* (none if the request itself failed), and no page is requested after a
\* failed one.
C8_FailureReturnsAccumulated ==
    /\ \A k \in 1..NReq : ~PageOk(k) => k = NReq /\ g_pc = "done"
    /\ (g_pc = "done" /\ ~PageOk(NReq)) =>
        /\ Increasing(returned)
        /\ Range(returned) =
              UNION {NonPrOf(k) : k \in 1..(NReq - 1)}
              \cup (IF served[NReq].ok THEN NonPrBefore(NReq, FailedAt(NReq)) ELSE {})

C8_Witness ==
    /\ g_pc = "done"
    /\ NReq = 2
    /\ served[2].ok
    /\ served[2].items = <<"issue", "bad">>
    /\ returned = <<1, 2, 3>>

\* C9: the returned list holds no pull request and holds every other item of
\* every page fetched and decoded without failure, in the order received;
\* whether another page is fetched depends on the raw length of the page.
C9_PullRequestsFilteredRawLengthDecides ==
    /\ g_pc = "done" =>
        /\ \A k \in 1..NReq : \A i \in 1..Len(served[k].items) :
              served[k].items[i] = "pr" => ItemId(per_page, k, i) \notin Range(returned)
        /\ \A k \in 1..NReq : PageOk(k) => NonPrOf(k) \subseteq Range(returned)
        /\ Increasing(returned)
        /\ PageOk(NReq) => Len(served[NReq].items) < per_page
    /\ \A k \in 1..(NReq - 1) : Len(served[k].items) = per_page

C9_Witness ==
    /\ g_pc = "done"
    /\ per_page = 2
    /\ NReq = 3
    /\ served[1].items = <<"pr", "pr">>
    /\ served[2].items = <<"issue", "pr">>
    /\ served[3].items = <<"issue">>
    /\ returned = <<3, 5>>

(***************************************************************************)
(* Claims about send_api_message (the spec's send_to_user), checked under  *)
(* SpecSend.                                                               *)
(***************************************************************************)
Posted == {posts[i] : i \in 1..Len(posts)}

\* C6: every bearer token attached to a message POST was, when it was
\* obtained for that send, more than 300 seconds before its declared expiry,
\* whether it came from the cache or from a fetch, whatever its lifetime.
C6_TokenOutsideMargin ==
    \A m \in Posted : m.token.expires - m.obtained_at > 300

HasPrefix(rid, a, b, c) ==
    /\ Len(rid.chars) >= 3
    /\ rid.chars[1] = a
    /\ rid.chars[2] = b
    /\ rid.chars[3] = c

\* C10: whatever receive_id_type the caller gives, an id beginning "ou_" is
\* posted as open_id and one beginning "oc_" as chat_id; only an id with
\* neither prefix is posted with the caller's type.
C10_PrefixDecidesType ==
    \A m \in Posted :
        /\ m.receive_id = receive_id
        /\ HasPrefix(m.receive_id, "o", "u", "_") => m.receive_id_type = "open_id"
        /\ HasPrefix(m.receive_id, "o", "c", "_") => m.receive_id_type = "chat_id"
        /\ (~HasPrefix(m.receive_id, "o", "u", "_") /\ ~HasPrefix(m.receive_id, "o", "c", "_"))
              => m.receive_id_type = receive_id_type

C10_Witness ==
    /\ s_pc = "done"
    /\ Len(posts) = 1
    /\ receive_id = Id(<<"o", "u", "_", "7">>)
    /\ receive_id_type = "chat_id"
    /\ posts[1].receive_id_type = "open_id"

\* C11: send_api_message returns True if and only if a token was obtained,
\* exactly one message POST was made and it came back with status 200 and
\* result code 0; without a token it returns False and posts nothing; it
\* never posts twice.
C11_TrueIffOnePostAccepted ==
    /\ Len(posts) <= 1
    /\ s_pc = "done" =>
        /\ sent \in BOOLEAN
        /\ sent <=> (/\ token # NoToken
                     /\ Len(posts) = 1
                     /\ posts[1].response.status = 200
                     /\ posts[1].response.code = 0)
        /\ token = NoToken => (~sent /\ posts = <<>>)
    /\ s_pc = "fetch" => posts = <<>>

C11_Witness ==
    /\ s_pc = "done"
    /\ token # NoToken
    /\ Len(posts) = 1
    /\ posts[1].response = [status |-> 200, code |-> 0]
    /\ sent = TRUE

\* A finished call of send_webhook_message made one POST, without a bearer
\* token, and returned True exactly for status 200 with result code 0.
WebhookResult ==
    w_pc = "done" =>
        /\ Len(w_posts) = 1
        /\ w_posts[1].authorization = NoToken
        /\ w_sent <=> (w_posts[1].response.status = 200 /\ w_posts[1].response.code = 0)

\* A step of send_webhook_message leaves the token cache as it was.
WebhookKeepsCache ==
    w_pc' # w_pc =>
        /\ access_token' = access_token
        /\ token_expire_time' = token_expire_time
        /\ fetches' = fetches

\* C12: send_webhook_message makes exactly one POST per call whatever comes
\* of it, uses no bearer token, leaves the token cache unchanged and returns
\* True if and only if the status is 200 and the result code is 0.
C12_WebhookOnePostNoToken ==
    []WebhookResult /\ [][WebhookKeepsCache]_vars

C12_Witness ==
    /\ w_pc = "done"
    /\ access_token # NoToken
    /\ Len(w_posts) = 1
    /\ w_posts[1].response = [status |-> 200, code |-> 19001]
    /\ ~w_sent

(***************************************************************************)
(* Beginner-issue discovery                                                *)
(***************************************************************************)
\* The ids of the listed issues whose analysis was kept by the tier filter.
KeptByTier ==
    {i \in 1..Len(d_out.analyses) :
        d_out.analyses[i].rec.difficulty_level \in {"beginner", "intermediate"}}

ReturnedIds == {d_out.issues[i].issue : i \in 1..Len(d_out.issues)}

\* C13: in every successful response of beginner-issue discovery the returned
\* issues are in non-decreasing order of complexity_score, and the
\* recommendations of the digest are the first (at most 5) items of that
\* same ordering.
C13_SortedAndDigestIsPrefix ==
    (d_pc = "done" /\ d_out.status = 200) =>
        /\ \A i, j \in 1..Len(d_out.issues) :
            i < j => Score(d_out.issues[i]) <= Score(d_out.issues[j])
        /\ \A k \in 1..Len(d_out.digests) :
            LET recs == d_out.digests[k].recommendations IN
            /\ Len(recs) = Min(Len(d_out.issues), 5)
            /\ \A i \in 1..Len(recs) : recs[i].issue = d_out.issues[i].issue

\* A digest went out for three kept issues that were listed in another
\* order than that of their scores.
C13_Witness ==
    /\ d_pc = "done"
    /\ d_out.status = 200
    /\ Len(d_out.digests) = 1
    /\ Len(d_out.issues) = 3
    /\ d_out.issues[1].issue > d_out.issues[3].issue
    /\ Score(d_out.issues[1]) < Score(d_out.issues[2])
    /\ Score(d_out.issues[2]) < Score(d_out.issues[3])

\* C14: discovery analyzes only the first 5 listed issues, keeps exactly
\* those whose tier is beginner or intermediate, sends a digest only when
\* send_notification is true and something was kept, with at most 5
\* recommendations, returns at most 10 issues, and reports the size of the
\* whole listing and the number kept.
C14_DiscoveryBounds ==
    d_pc = "done" =>
        /\ Len(d_out.analyses) <= 5
        /\ Len(d_out.digests) <= 1
        /\ \A k \in 1..Len(d_out.digests) :
            /\ d_in.send_notification
            /\ KeptByTier # {}
            /\ Len(d_out.digests[k].recommendations) <= 5
        /\ d_out.status = 200 =>
            /\ Len(d_out.analyses) = Min(Listing(d_in), 5)
            /\ ReturnedIds = KeptByTier
            /\ Len(d_out.issues) = Cardinality(KeptByTier)
            /\ Len(d_out.issues) <= 10
            /\ d_out.total_issues_found = Listing(d_in)
            /\ d_out.recommended_issues = Cardinality(KeptByTier)

\* Six issues were listed, an analysis of tier "expert" was dropped, another
\* was kept, and the digest went out.
C14_Witness ==
    /\ d_pc = "done"
    /\ d_out.status = 200
    /\ d_out.total_issues_found = 6
    /\ Len(d_out.analyses) = 5
    /\ \E i \in 1..5 : d_out.analyses[i].rec.difficulty_level = "expert"
    /\ d_out.recommended_issues = 2
    /\ Len(d_out.digests) = 1

(***************************************************************************)
(* Catalog search                                                          *)
(***************************************************************************)
InFiltered(i) == \E k \in 1..Len(c_out.filtered) : c_out.filtered[k] = i

\* The filter loop of the request ran to its end.
Filtered == c_pc = "done" /\ c_out.filter_done

Catalog == 1..Len(c_in.catalog)

Flag(i) == c_in.catalog[i].beginner_friendly

KeywordMatch(i) == matches_keyword(c_in.keywords, c_in.catalog[i])

\* C15: a project whose beginner_friendly flag is false is left out of the
\* filtered set for experience_level "beginner", and is in it for
\* experience_level "advanced" when it matches the keywords.
C15_FalseFlagBeginnerOutAdvancedIn ==
    Filtered =>
        \A i \in Catalog :
            Flag(i) = "false" =>
                /\ c_in.experience_level = "beginner" => ~InFiltered(i)
                /\ (c_in.experience_level = "advanced" /\ KeywordMatch(i)) => InFiltered(i)

\* An "advanced" search with keywords kept a project whose flag is false.
C15_Witness ==
    /\ Filtered
    /\ c_in.experience_level = "advanced"
    /\ c_in.keywords # <<>>
    /\ \E i \in Catalog : Flag(i) = "false" /\ InFiltered(i)
    /\ \E i \in Catalog : ~InFiltered(i)

\* C16, as stated: beginner accepts exactly the projects whose flag is true,
\* advanced exactly those whose flag is false or absent, intermediate all.
C16_AdvancedAcceptsFalseOrAbsent ==
    Filtered =>
        \A i \in Catalog :
            KeywordMatch(i) =>
                (InFiltered(i) <=>
                    \/ c_in.experience_level = "beginner" /\ Flag(i) = "true"
                    \/ c_in.experience_level = "advanced" /\ Flag(i) \in {"false", "absent"}
                    \/ c_in.experience_level = "intermediate")

\* C16, amended: beginner accepts exactly the projects whose flag is true,
\* advanced exactly those whose flag is present and false, intermediate all;
\* a project without the key is accepted for intermediate only.
C16_AdvancedAcceptsFalseOnly ==
    Filtered =>
        \A i \in Catalog :
            KeywordMatch(i) =>
                (InFiltered(i) <=>
                    \/ c_in.experience_level = "beginner" /\ Flag(i) = "true"
                    \/ c_in.experience_level = "advanced" /\ Flag(i) = "false"
                    \/ c_in.experience_level = "intermediate")

\* An "advanced" search kept a project whose flag is false and left out a
\* keyword-matching project that has no flag.
C16_Witness ==
    /\ Filtered
    /\ c_in.experience_level = "advanced"
    /\ \E i \in Catalog : Flag(i) = "false" /\ InFiltered(i)
    /\ \E i \in Catalog : Flag(i) = "absent" /\ KeywordMatch(i) /\ ~InFiltered(i)

(***************************************************************************)
(* Daily sweep                                                             *)
(***************************************************************************)
\* C17: a failure of one item never aborts the batch: the item is skipped,
\* every later item of the prefix is still processed and the request ends
\* with a normal response; only a failure of the configuration load makes
\* the request fail.
C17_ItemFailuresNeverAbort ==
    (m_pc = "done" /\ m_config = "ok") =>
        /\ m_out.status = 200
        /\ m_index = Min(m_len, 10)

\* C18: a sweep visits at most the first 10 catalog projects, analyzes at
\* most the first 3 listed issues of each, collects only recommendations of
\* tier beginner or intermediate, sends at most one digest, after the last
\* project and only if something was collected, carrying the first (at most
\* 5) recommendations collected, and reports the size of the visited prefix,
\* the sum of the listing sizes and the uncapped number collected.
C18_SweepBounds ==
    /\ m_index <= 10
    /\ m_index <= m_len
    /\ \A k \in 1..Len(m_calls) : m_calls[k].project <= 10 /\ m_calls[k].issue <= 3
    /\ \A k \in 1..Len(all_recommendations) :
        all_recommendations[k].difficulty \in {"beginner", "intermediate"}
    /\ Len(m_out.digests) <= 1
    /\ \A k \in 1..Len(m_out.digests) :
        LET recs == m_out.digests[k].recommendations IN
        /\ m_pc = "done"
        /\ m_index = Min(m_len, 10)
        /\ Len(all_recommendations) >= 1
        /\ Len(recs) = Min(Len(all_recommendations), 5)
        /\ \A i \in 1..Len(recs) : recs[i] = all_recommendations[i]
    /\ (m_pc = "done" /\ m_out.status = 200) =>
        /\ m_out.monitored_projects = Min(m_len, 10)
        /\ m_out.total_issues_found = m_served
        /\ m_out.recommendations_found = Len(all_recommendations)

\* A sweep over a catalog of 11 projects ended after the tenth with more
\* than 5 recommendations collected and a digest of 5.
C18_Witness ==
    /\ m_pc = "done"
    /\ m_out.status = 200
    /\ m_len = 11
    /\ m_out.monitored_projects = 10
    /\ m_out.recommendations_found > 5
    /\ Len(m_out.digests) = 1
    /\ Len(m_out.digests[1].recommendations) = 5
    /\ m_out.total_issues_found > Len(m_calls)

(***************************************************************************)
(* Daily-digest card                                                       *)
(***************************************************************************)
\* The positions of the recommendation blocks of the card.
Blocks == {e \in 1..Len(k_card) : k_card[e].tag = "div" /\ k_card[e].n > 0}

\* C19: the card built from n recommendations carries exactly min(n, 5)
\* recommendation blocks, in input order, and a divider between every two
\* consecutive ones.
C19_BlocksInOrderSeparatedByDividers ==
    k_pc = "done" =>
        /\ Cardinality(Blocks) = Min(Len(k_in), 5)
        /\ \A e \in Blocks :
            /\ k_card[e].n <= Len(k_in)
            /\ k_card[e].title = k_in[k_card[e].n].title
        /\ \A e, f \in Blocks :
            e < f => /\ k_card[e].n < k_card[f].n
                     /\ \E h \in (e + 1)..(f - 1) : k_card[h].tag = "hr"

(***************************************************************************)
(* Single-issue analysis                                                   *)
(***************************************************************************)
\* The steps of a request, in the order stated, with or without the plan.
StatedOrder(with_plan) ==
    <<"get_issue_details", "get_readme", "get_contributing_guide", "analyze_issue">>
    \o (IF with_plan THEN <<"generate_contribution_plan">> ELSE <<>>)
    \o <<"send_issue_recommendation">>

IsPrefix(t, u) == Len(t) <= Len(u) /\ t = SubSeq(u, 1, Len(t))

Called(step) == \E k \in 1..Len(e_out.trace) : e_out.trace[k] = step

\* C20: the calls of a request are made in the order fetch issue, fetch the
\* two docs, analyze, plan, notify; the plan is generated if and only if the
\* skill list is not empty, and contribution_plan is null otherwise; a
\* failed issue fetch gives a 500 with no analysis and no notification; the
\* response is the same whether the notification was delivered or not.
C20_StepsInOrderPlanIffSkills ==
    e_pc = "done" =>
        /\ IsPrefix(e_out.trace, StatedOrder(e_in.user_skills # <<>>))
        /\ e_out.status = 200 =>
            /\ e_out.trace = StatedOrder(e_in.user_skills # <<>>)
            /\ Called("generate_contribution_plan") <=> e_in.user_skills # <<>>
            /\ e_out.contribution_plan = "null" <=> e_in.user_skills = <<>>
        /\ e_in.details = "raise" =>
            /\ e_out.status = 500
            /\ ~Called("analyze_issue")
            /\ ~Called("send_issue_recommendation")
        /\ Called("send_issue_recommendation") => e_out.status = 200

\* A request with skills got its plan although the notification failed.
C20_Witness ==
    /\ e_pc = "done"
    /\ e_out.status = 200
    /\ e_in.user_skills # <<>>
    /\ e_out.contribution_plan = "text"
    /\ Called("generate_contribution_plan")
    /\ Called("send_issue_recommendation")
    /\ ~e_in.delivered

(***************************************************************************)
(* Readme and contributing guide                                           *)
(***************************************************************************)
\* The request came back with a content string that is base64 of UTF-8.
FetchSucceeds ==
    /\ r_in.answer.kind = "object"
    /\ b64decode(r_in.answer.content).ok
    /\ utf_8_decode(b64decode(r_in.answer.content).bytes, 1, <<>>).ok

\* C21: get_readme and get_contributing_guide never raise; they return the
\* empty string when the file is absent or the request or the decoding
\* fails in any way, and the decoded text when the fetch succeeds.
C21_DocsNeverRaise ==
    r_pc = "done" =>
        /\ r_out.kind = "returned"
        /\ ~FetchSucceeds => r_out.text = <<>>
        /\ FetchSucceeds =>
            r_out.text = utf_8_decode(b64decode(r_in.answer.content).bytes, 1, <<>>).text

\* get_contributing_guide returned "hi" for the content "aGk=".
C21_Witness ==
    /\ r_pc = "done"
    /\ r_in.method = "get_contributing_guide"
    /\ r_in.answer.content = <<"a", "G", "k", "=">>
    /\ r_out = DocReturned(<<104, 105>>)

(***************************************************************************)
(* Token cache                                                             *)
(***************************************************************************)
\* A token is cached and the clock has not reached its expiry minus 300 s.
CachedTokenUsable ==
    access_token # NoToken /\ clock < access_token.expires - 300

\* A call of send_api_message enters _get_access_token.
CallStarts == s_pc = "idle" /\ s_pc' # "idle"

\* The token request came back as a transport error or with a non-zero code.
FetchFails == s_pc = "fetch" /\ s_pc' # "fetch" /\ fetches' = fetches

C22_Step ==
    /\ CallStarts =>
        /\ s_pc' = "fetch" <=> (credentials /\ ~CachedTokenUsable)
        /\ CachedTokenUsable =>
            /\ s_pc' = "post"
            /\ token' = access_token
            /\ UNCHANGED <<access_token, token_expire_time, fetches>>
    /\ FetchFails => UNCHANGED <<access_token, token_expire_time>>

\* C22: over any sequence of sends by one flow of control a token request
\* is issued if and only if the credentials are configured and no token is
\* cached or the clock has reached the cached expiry minus 300 s; while the
\* cached token is valid it is reused and nothing is fetched; a fetch that
\* fails leaves the cached token and expiry as they were.
C22_TokenCacheDiscipline == [][C22_Step]_vars

\* A call made 300 s after the first token was fetched with a lifetime of
\* 900 s goes on to its POST with that token, nothing fetched.
C22_Witness ==
    /\ s_pc = "post"
    /\ obtained_at = 300
    /\ fetches = 1
    /\ token = access_token
    /\ token.expires = 900
    /\ token_expire_time = 600

(***************************************************************************)
(* Two sends at once                                                       *)
(***************************************************************************)
\* No send is in flight.
Quiescent == \A t \in Threads : t_pc[t] \in {"idle", "done"}

\* The POST of thread t carried a token outside its own safety margin.
OutsideMargin(t) ==
    t_post[t] # NoPost => t_post[t].at < t_post[t].token.expires - 300

\* The cache holds the token and the expiry of one and the same response.
CachePaired == token_from = expiry_from

\* C23: however two sends interleave in the read-check-refresh of the token
\* cache, both carry a token that is outside its own safety margin, and
\* once both have finished the cached token and the cached expiry come
\* from the same fetch response.
C23_InterleavedRefreshHarmless ==
    /\ \A t \in Threads : OutsideMargin(t)
    /\ Quiescent => CachePaired

====
